---------------------------- MODULE Spec2Model ----------------------------
(***************************************************************************)
(* A model of the JSX props-order lint rule of src/rules/order.js.         *)
(*                                                                         *)
(* The file assigns module.exports twice.  The first rule object (lines    *)
(* 7-412) sorts the attributes group by group between spread attributes    *)
(* and guards every step with try/catch; the second rule object (lines     *)
(* 419-682) filters the spread attributes out, sorts what is left and has  *)
(* no guard.  Both are modelled; the variable `rule` says which of the two *)
(* rule objects the host has loaded.                                       *)
(*                                                                         *)
(* An attribute name is a sequence of one-character strings, so that its   *)
(* length, the regular expressions of PATTERNS and localeCompare are       *)
(* computed from the characters.  The source text of a value is modelled   *)
(* by its number of newline-delimited lines, the only thing the code reads *)
(* from it (includes('\n'), split("\n").length).                           *)
(***************************************************************************)
EXTENDS Integers, Sequences, FiniteSets, TLC

VARIABLES
  rule,                        \* 1: first module.exports, 2: second module.exports
  reactPropsList,              \* create(): the priority list in effect
  shouldPrioritizeReactProps,  \* create(): options.reactPropsFirst !== false
  attrs,                       \* node.attributes of the element being linted
  nodeNoText,                  \* sourceCode.getText(node) / getText(node.name) throws
  pc,                          \* "ready" | "visited" | "fixed"
  sortedAttributes,            \* the candidate sequence of the last visit
  report,                      \* "none" | "fix" | "nofix": what context.report received
  fixResult,                   \* "notrun" | "null" | "text": what the fix callback returned
  replacement,                 \* the attribute texts written into the replacement
  thrown,                      \* an exception reached the host
  raised,                      \* some step of the processing raised an exception
  pass,                        \* lint passes made over the element
  visits                       \* elements of the file handed to the handler so far

vars == <<rule, reactPropsList, shouldPrioritizeReactProps, attrs, nodeNoText, pc,
          sortedAttributes, report, fixResult, replacement, thrown, raised, pass, visits>>

----------------------------------------------------------------------------
(* Bounds of the model.                                                    *)

MaxAttrs == 4

MaxFailAttrs == 3

MaxPasses == 2

\* Elements of one file.
MaxElements == 2

\* Attributes of an element of the family that varies the value shapes.
MaxShapeAttrs == 2

----------------------------------------------------------------------------
(* Characters and names.                                                   *)

Lower == <<"a","b","c","d","e","f","g","h","i","j","k","l","m",
           "n","o","p","q","r","s","t","u","v","w","x","y","z">>

Upper == <<"A","B","C","D","E","F","G","H","I","J","K","L","M",
           "N","O","P","Q","R","S","T","U","V","W","X","Y","Z">>

IsUpper(c) == \E i \in DOMAIN Upper : Upper[i] = c

LetterRank(c) == CHOOSE i \in DOMAIN Lower : Lower[i] = c \/ Upper[i] = c

StartsWith(s, p) == Len(s) >= Len(p) /\ SubSeq(s, 1, Len(p)) = p

EndsWith(s, p) == Len(s) >= Len(p) /\ SubSeq(s, Len(s) - Len(p) + 1, Len(s)) = p

\* ^p[A-Z]
StartsWithThenUpper(s, p) == StartsWith(s, p) /\ Len(s) > Len(p) /\ IsUpper(s[Len(p) + 1])

\* PATTERNS.FUNCTION.test(s): /Handler$|Callback$|^on[A-Z]|^handle[A-Z]|^toggle[A-Z]/
PatternFunction(s) ==
  \/ EndsWith(s, <<"H","a","n","d","l","e","r">>)
  \/ EndsWith(s, <<"C","a","l","l","b","a","c","k">>)
  \/ StartsWithThenUpper(s, <<"o","n">>)
  \/ StartsWithThenUpper(s, <<"h","a","n","d","l","e">>)
  \/ StartsWithThenUpper(s, <<"t","o","g","g","l","e">>)

\* PATTERNS.OBJECT.test(s): /Config$|Options$|Props$|Style$|Data$|^obj|^data/
PatternObject(s) ==
  \/ EndsWith(s, <<"C","o","n","f","i","g">>)
  \/ EndsWith(s, <<"O","p","t","i","o","n","s">>)
  \/ EndsWith(s, <<"P","r","o","p","s">>)
  \/ EndsWith(s, <<"S","t","y","l","e">>)
  \/ EndsWith(s, <<"D","a","t","a">>)
  \/ StartsWith(s, <<"o","b","j">>)
  \/ StartsWith(s, <<"d","a","t","a">>)

\* The first index at which two names differ in their letters, case ignored
\* (0 when one is a prefix of the other at that level).
RECURSIVE FirstDiff(_, _, _, _)
FirstDiff(s, t, i, byCase) ==
  IF i > Len(s) \/ i > Len(t) THEN 0
  ELSE IF byCase /\ IsUpper(s[i]) # IsUpper(t[i]) THEN i
  ELSE IF ~byCase /\ LetterRank(s[i]) # LetterRank(t[i]) THEN i
  ELSE FirstDiff(s, t, i + 1, byCase)

\* String.prototype.localeCompare on names made of letters: the letters decide
\* first, case ignored; then the shorter name; then lower case before upper case.
localeCompare(s, t) ==
  LET p == FirstDiff(s, t, 1, FALSE)
      c == FirstDiff(s, t, 1, TRUE)
  IN  IF p # 0 THEN (IF LetterRank(s[p]) < LetterRank(t[p]) THEN -1 ELSE 1)
      ELSE IF Len(s) # Len(t) THEN (IF Len(s) < Len(t) THEN -1 ELSE 1)
      ELSE IF c # 0 THEN (IF IsUpper(t[c]) THEN -1 ELSE 1)
      ELSE 0

Name_key == <<"k","e","y">>
Name_ref == <<"r","e","f">>
Name_dangerouslySetInnerHTML ==
  <<"d","a","n","g","e","r","o","u","s","l","y","S","e","t","I","n","n","e","r","H","T","M","L">>
Name_children == <<"c","h","i","l","d","r","e","n">>
Name_value == <<"v","a","l","u","e">>
Name_defaultValue == <<"d","e","f","a","u","l","t","V","a","l","u","e">>
Name_checked == <<"c","h","e","c","k","e","d">>
Name_defaultChecked == <<"d","e","f","a","u","l","t","C","h","e","c","k","e","d">>
Name_className == <<"c","l","a","s","s","N","a","m","e">>
Name_style == <<"s","t","y","l","e">>
Name_id == <<"i","d">>
Name_name == <<"n","a","m","e">>
Name_to == <<"t","o">>
Name_size == <<"s","i","z","e">>
Name_asChild == <<"a","s","C","h","i","l","d">>
Name_buttonText == <<"b","u","t","t","o","n","T","e","x","t">>
Name_onClick == <<"o","n","C","l","i","c","k">>
Name_onBlur == <<"o","n","B","l","u","r">>
Name_user == <<"u","s","e","r">>
Name_userData == <<"u","s","e","r","D","a","t","a">>
Name_handleClick == <<"h","a","n","d","l","e","C","l","i","c","k">>
Name_data == <<"d","a","t","a">>
Name_meta == <<"m","e","t","a">>
Name_href == <<"h","r","e","f">>

----------------------------------------------------------------------------
(* create(): options and the configuration derived from them.              *)

\* The fallback of `options.reactPropsList || [...]`.
DefaultReactPropsList ==
  <<Name_key, Name_ref, Name_dangerouslySetInnerHTML, Name_children,
    Name_value, Name_defaultValue, Name_checked, Name_defaultChecked,
    Name_className, Name_style, Name_id, Name_name>>

\* The `default` the option schema declares for reactPropsList.
SchemaReactPropsList == <<Name_key, Name_ref, Name_dangerouslySetInnerHTML>>

NoOptions == [hasList |-> FALSE, list |-> <<>>, reactPropsFirst |-> TRUE]

\* Options that spell out the defaults the schema and the README declare.
SchemaOptions == [hasList |-> TRUE, list |-> SchemaReactPropsList, reactPropsFirst |-> TRUE]

\* context.options[0] as create() receives it.
OptionsSet ==
  { NoOptions,
    [hasList |-> FALSE, list |-> <<>>, reactPropsFirst |-> FALSE],
    [hasList |-> TRUE, list |-> <<Name_id, Name_key>>, reactPropsFirst |-> TRUE] }

ConfiguredList(options) ==
  IF options.hasList THEN options.list ELSE DefaultReactPropsList

\* Array.prototype.includes / indexOf on the priority list (indexOf is 0-based,
\* -1 when absent).
Includes(list, x) == \E i \in DOMAIN list : list[i] = x

IndexOf(list, x) ==
  IF Includes(list, x)
  THEN (CHOOSE i \in DOMAIN list : list[i] = x /\ \A j \in 1..(i - 1) : list[j] # x) - 1
  ELSE -1

----------------------------------------------------------------------------
(* PROP_CATEGORIES.                                                        *)

REACT_RESERVED == -1
SHORTHAND == 0
\* STRING and VARIABLE in the source; both words are reserved in TLA+.
STRING_ == 1
VARIABLE_ == 2
FUNCTION == 3
MULTILINE_OBJECT == 4
MULTILINE_FUNCTION == 5
UNKNOWN == 6


----------------------------------------------------------------------------
(* Attribute nodes.                                                        *)
(*   id          the node's identity: its index in node.attributes         *)
(*   type        "JSXAttribute" | "JSXSpreadAttribute"                     *)
(*   nameIsString  typeof prop.name.name === "string"; FALSE for a         *)
(*               JSXNamespacedName (xlink:href), whose name.name is a node *)
(*   name        the characters of the name                                *)
(*   value       "null" | "Literal" | "JSXExpressionContainer"             *)
(*   expr        prop.value.expression.type, "none" outside a container    *)
(*   exprName    the name of an Identifier expression                      *)
(*   lines       newline-delimited lines of getText(prop.value)            *)
(*   noText      sourceCode.getText throws for the node and its value      *)

Attr(name, value, expr, exprName, lines) ==
  [type |-> "JSXAttribute", nameIsString |-> TRUE, name |-> name, value |-> value,
   expr |-> expr, exprName |-> exprName, lines |-> lines, noText |-> FALSE]

SpreadAttr ==
  [type |-> "JSXSpreadAttribute", nameIsString |-> FALSE, name |-> <<>>, value |-> "null",
   expr |-> "none", exprName |-> <<>>, lines |-> 1, noText |-> FALSE]

\* xlink:href="..."
NamespacedAttr ==
  [type |-> "JSXAttribute", nameIsString |-> FALSE, name |-> Name_href, value |-> "Literal",
   expr |-> "none", exprName |-> <<>>, lines |-> 1, noText |-> FALSE]

WithId(a, i) ==
  [id |-> i, type |-> a.type, nameIsString |-> a.nameIsString, name |-> a.name,
   value |-> a.value, expr |-> a.expr, exprName |-> a.exprName, lines |-> a.lines,
   noText |-> a.noText]

WithNoText(a) ==
  [type |-> a.type, nameIsString |-> a.nameIsString, name |-> a.name,
   value |-> a.value, expr |-> a.expr, exprName |-> a.exprName, lines |-> a.lines,
   noText |-> TRUE]

IsSpread(a) == a.type = "JSXSpreadAttribute"

\* propValueText.includes('\n')
IsMultiline(prop) == prop.lines >= 2

\* textA.split("\n").length
SplitLines(prop) == prop.lines

----------------------------------------------------------------------------
(* Classification.                                                         *)

isFunction(prop) ==
  \/ prop.expr = "ArrowFunctionExpression"
  \/ prop.expr = "FunctionExpression"
  \/ (prop.expr = "Identifier" /\ PatternFunction(prop.exprName))

isObject(prop) ==
  \/ prop.expr = "ObjectExpression"
  \/ (prop.expr = "Identifier" /\ PatternObject(prop.exprName))

\* Lines 101-164 and 507-569: the category decided from the value, its text and
\* the name patterns, once the name is known not to be reserved and a value exists.
CategoryOfValue(prop) ==
  IF IsMultiline(prop)
  THEN IF prop.value = "JSXExpressionContainer" /\ isFunction(prop) THEN MULTILINE_FUNCTION
       ELSE IF prop.value = "JSXExpressionContainer" /\ isObject(prop) THEN MULTILINE_OBJECT
       ELSE IF PatternFunction(prop.name) THEN MULTILINE_FUNCTION
       ELSE IF PatternObject(prop.name) THEN MULTILINE_OBJECT
       ELSE MULTILINE_OBJECT
  ELSE IF prop.value = "Literal"
          \/ (prop.value = "JSXExpressionContainer" /\ prop.expr = "Literal") THEN STRING_
  ELSE IF prop.value = "JSXExpressionContainer" /\ isFunction(prop) THEN FUNCTION
  ELSE IF prop.value = "JSXExpressionContainer" /\ PatternFunction(prop.name) THEN FUNCTION
  ELSE IF prop.value = "JSXExpressionContainer" /\ PatternObject(prop.name) THEN VARIABLE_
  ELSE VARIABLE_

\* reactPropsList.includes(propName); a name that is not a string is in no list.
IsReserved(prop) ==
  shouldPrioritizeReactProps /\ prop.nameIsString /\ Includes(reactPropsList, prop.name)

\* First module.exports, lines 83-169.
getPropCategory(prop) ==
  IF prop.type # "JSXAttribute" \/ ~prop.nameIsString THEN UNKNOWN
  ELSE IF IsReserved(prop) THEN REACT_RESERVED
  ELSE IF prop.value = "null" THEN SHORTHAND
  ELSE IF prop.noText THEN UNKNOWN   \* getText throws inside the try: catch, line 165
  ELSE CategoryOfValue(prop)

\* getPropCategory of the first module.exports raises (and catches) an exception.
CategoryRaises(prop) ==
  /\ prop.type = "JSXAttribute" /\ prop.nameIsString
  /\ ~IsReserved(prop) /\ prop.value # "null" /\ prop.noText

\* Second module.exports, lines 494-570: the category, and whether the call throws
\* (getText at line 507, outside any try).  On a JSXNamespacedName the name is a
\* node: it is in no list and the patterns test "[object Object]".
getPropCategory2Throws(prop) ==
  ~IsReserved(prop) /\ prop.value # "null" /\ prop.noText

getPropCategory2(prop) ==
  IF IsReserved(prop) THEN REACT_RESERVED
  ELSE IF prop.value = "null" THEN SHORTHAND
  ELSE IF prop.nameIsString THEN CategoryOfValue(prop)
  ELSE CategoryOfValue([prop EXCEPT !.name = <<>>])


----------------------------------------------------------------------------
(* Comparators.                                                            *)

\* compareWithinCategory with `return -1` for two attributes that tie.
compareWithinCategory_TieIsLess(category, propA, propB, indexA, indexB) ==
  IF category = REACT_RESERVED /\ indexA # -1 /\ indexB # -1 /\ indexA # indexB
  THEN indexA - indexB
  ELSE IF Len(propA.name) # Len(propB.name) THEN Len(propA.name) - Len(propB.name)
  ELSE IF propA.name # propB.name THEN localeCompare(propA.name, propB.name)
  ELSE IF (category = MULTILINE_OBJECT \/ category = MULTILINE_FUNCTION)
          /\ SplitLines(propA) # SplitLines(propB)
       THEN SplitLines(propA) - SplitLines(propB)
  ELSE -1

\* compareWithinCategory with the lengths subtracted the wrong way round.
compareWithinCategory_LongerFirst(category, propA, propB, indexA, indexB) ==
  IF category = REACT_RESERVED /\ indexA # -1 /\ indexB # -1 THEN indexA - indexB
  ELSE IF Len(propA.name) # Len(propB.name) THEN Len(propB.name) - Len(propA.name)
  ELSE IF propA.name # propB.name THEN localeCompare(propB.name, propA.name)
  ELSE IF category = MULTILINE_OBJECT \/ category = MULTILINE_FUNCTION
       THEN SplitLines(propA) - SplitLines(propB)
  ELSE 0

\* compareWithinCategory with the lines subtracted the wrong way round.
compareWithinCategory_MoreLinesFirst(category, propA, propB, indexA, indexB) ==
  IF category = REACT_RESERVED /\ indexA # -1 /\ indexB # -1 THEN indexA - indexB
  ELSE IF Len(propA.name) # Len(propB.name) THEN Len(propA.name) - Len(propB.name)
  ELSE IF propA.name # propB.name THEN localeCompare(propA.name, propB.name)
  ELSE IF category = MULTILINE_OBJECT \/ category = MULTILINE_FUNCTION
       THEN SplitLines(propB) - SplitLines(propA)
  ELSE 0

\* compareWithinCategory without the branch of the priority list.
compareWithinCategory_NoListOrder(category, propA, propB, indexA, indexB) ==
  IF Len(propA.name) # Len(propB.name) THEN Len(propA.name) - Len(propB.name)
  ELSE IF propA.name # propB.name THEN localeCompare(propA.name, propB.name)
  ELSE IF category = MULTILINE_OBJECT \/ category = MULTILINE_FUNCTION
       THEN SplitLines(propA) - SplitLines(propB)
  ELSE 0

\* Lines 188-238 and 582-623, with both categories equal to `category` and both
\* names strings: the priority list, the name's length, the name, the lines.
compareWithinCategory(category, propA, propB, indexA, indexB) ==
  IF category = REACT_RESERVED /\ indexA # -1 /\ indexB # -1 THEN indexA - indexB
  ELSE IF category = REACT_RESERVED /\ indexA # -1 THEN -1
  ELSE IF category = REACT_RESERVED /\ indexB # -1 THEN 1
  ELSE IF Len(propA.name) # Len(propB.name) THEN Len(propA.name) - Len(propB.name)
  ELSE IF propA.name # propB.name THEN localeCompare(propA.name, propB.name)
  ELSE IF category = MULTILINE_OBJECT \/ category = MULTILINE_FUNCTION
       THEN SplitLines(propA) - SplitLines(propB)
  ELSE 0

\* comparePropsOf with the categories subtracted the wrong way round.
comparePropsOf_HigherCategoryFirst(categoryA, categoryB, propA, propB) ==
  IF categoryA = UNKNOWN \/ categoryB = UNKNOWN THEN 0
  ELSE IF categoryA # categoryB THEN categoryB - categoryA
  ELSE IF ~(propA.type = "JSXAttribute" /\ propB.type = "JSXAttribute"
            /\ propA.nameIsString /\ propB.nameIsString) THEN 0
  ELSE compareWithinCategory(categoryA, propA, propB,
                             IndexOf(reactPropsList, propA.name),
                             IndexOf(reactPropsList, propB.name))

\* Lines 177-186 and 188-189, the categories known.
comparePropsOf(categoryA, categoryB, propA, propB) ==
  IF categoryA = UNKNOWN \/ categoryB = UNKNOWN THEN 0
  ELSE IF categoryA # categoryB THEN categoryA - categoryB
  ELSE IF ~(propA.type = "JSXAttribute" /\ propB.type = "JSXAttribute"
            /\ propA.nameIsString /\ propB.nameIsString) THEN 0
  ELSE compareWithinCategory(categoryA, propA, propB,
                             IndexOf(reactPropsList, propA.name),
                             IndexOf(reactPropsList, propB.name))

\* First module.exports, lines 172-243.  Nothing escapes its try/catch, so the
\* result is always a number.
compareProps(propA, propB) ==
  comparePropsOf(getPropCategory(propA), getPropCategory(propB), propA, propB)

\* Lines 577-623, the categories known.  A name that is a node (JSXNamespacedName)
\* has no length (undefined) and no localeCompare: against a string name the
\* difference of the lengths is NaN, which sort reads as 0; against another node,
\* nameA.localeCompare is not a function.
comparePropOrderOf(categoryA, categoryB, propA, propB) ==
  IF categoryA # categoryB THEN [err |-> FALSE, val |-> categoryA - categoryB]
  ELSE IF categoryA # REACT_RESERVED /\ propA.nameIsString # propB.nameIsString
       THEN [err |-> FALSE, val |-> 0]
  ELSE IF categoryA # REACT_RESERVED /\ ~propA.nameIsString THEN [err |-> TRUE, val |-> 0]
  ELSE [err |-> FALSE,
        val |-> compareWithinCategory(categoryA, propA, propB,
                                      IndexOf(reactPropsList, propA.name),
                                      IndexOf(reactPropsList, propB.name))]

\* Second module.exports, lines 573-624: [err, val], err when the call throws.
comparePropOrder(propA, propB) ==
  IF getPropCategory2Throws(propA) \/ getPropCategory2Throws(propB)
  THEN [err |-> TRUE, val |-> 0]
  ELSE comparePropOrderOf(getPropCategory2(propA), getPropCategory2(propB), propA, propB)

\* The comparefn of rule object r applied to every pair of nodes of arr, by
\* identity: cmp[a.id][b.id] is what comparefn(a, b) returns, or that it throws.
CompareTable(r, arr) ==
  LET ids == { arr[i].id : i \in DOMAIN arr }
      node(i) == arr[CHOOSE k \in DOMAIN arr : arr[k].id = i]
  IN  [i \in ids |-> [j \in ids |->
         IF r = 1 THEN [err |-> FALSE, val |-> compareProps(node(i), node(j))]
         ELSE comparePropOrder(node(i), node(j))]]

----------------------------------------------------------------------------
(* Array.prototype.sort, as the engine that runs ESLint sorts an array of   *)
(* fewer than 64 elements: the longest initial run (reversed when strictly  *)
(* descending), then a binary insertion of each later element.  With a      *)
(* consistent comparefn this is the stable sort the language requires; with *)
(* an inconsistent one the language leaves the order to the engine, and     *)
(* this is the order it produces.  cmp is the comparefn (CompareTable);     *)
(* results are [err, arr]: err when a call of comparefn threw, which ends   *)
(* the sort.                                                                *)

RECURSIVE RunLength(_, _, _, _)
RunLength(cmp, arr, idx, desc) ==
  IF idx > Len(arr) THEN [err |-> FALSE, len |-> idx - 1]
  ELSE LET c == cmp[arr[idx].id][arr[idx - 1].id]
       IN  IF c.err THEN [err |-> TRUE, len |-> idx - 1]
           ELSE IF (desc /\ c.val >= 0) \/ (~desc /\ c.val < 0)
                THEN [err |-> FALSE, len |-> idx - 1]
           ELSE RunLength(cmp, arr, idx + 1, desc)

ReverseRange(arr, n) ==
  [i \in 1..Len(arr) |-> IF i <= n THEN arr[n + 1 - i] ELSE arr[i]]

CountAndMakeRun(cmp, arr) ==
  LET c == cmp[arr[2].id][arr[1].id]
      desc == c.val < 0
      run == RunLength(cmp, arr, 3, desc)
  IN  IF c.err THEN [err |-> TRUE, len |-> 1, arr |-> arr]
      ELSE [err |-> run.err, len |-> run.len,
            arr |-> IF desc /\ ~run.err THEN ReverseRange(arr, run.len) ELSE arr]

\* left and right count from 0, as in the engine.
RECURSIVE BinarySearch(_, _, _, _, _)
BinarySearch(cmp, arr, pivot, left, right) ==
  IF left >= right THEN [err |-> FALSE, pos |-> left]
  ELSE LET mid == left + ((right - left) \div 2)
           c == cmp[pivot.id][arr[mid + 1].id]
       IN  IF c.err THEN [err |-> TRUE, pos |-> left]
           ELSE IF c.val < 0 THEN BinarySearch(cmp, arr, pivot, left, mid)
           ELSE BinarySearch(cmp, arr, pivot, mid + 1, right)

\* arr with the element at position start (from 0) moved to position left.
MoveTo(arr, start, left) ==
  [i \in 1..Len(arr) |->
     IF i - 1 < left \/ i - 1 > start THEN arr[i]
     ELSE IF i - 1 = left THEN arr[start + 1]
     ELSE arr[i - 1]]

RECURSIVE BinaryInsertionSort(_, _, _)
BinaryInsertionSort(cmp, arr, start) ==
  IF start >= Len(arr) THEN [err |-> FALSE, arr |-> arr]
  ELSE LET at == BinarySearch(cmp, arr, arr[start + 1], 0, start)
       IN  IF at.err THEN [err |-> TRUE, arr |-> arr]
           ELSE BinaryInsertionSort(cmp, MoveTo(arr, start, at.pos), start + 1)

SortWith(cmp, arr) ==
  LET run == CountAndMakeRun(cmp, arr)
  IN  IF Len(arr) < 2 THEN [err |-> FALSE, arr |-> arr]
      ELSE IF run.err THEN [err |-> TRUE, arr |-> arr]
      ELSE BinaryInsertionSort(cmp, run.arr, run.len)

\* [...arr].sort(comparefn of rule object r)
ArraySort(r, arr) == SortWith(CompareTable(r, arr), arr)

----------------------------------------------------------------------------
(* Grouping and sorting of the first module.exports.                       *)

\* Lines 246-267.
RECURSIVE groupAttributesBySpreadFrom(_, _, _, _)
groupAttributesBySpreadFrom(attributes, i, groups, currentGroup) ==
  IF i > Len(attributes) THEN groups
  ELSE LET attr == attributes[i]
           pushed == Append(currentGroup, attr)
       IN  IF IsSpread(attr) \/ i = Len(attributes)
           THEN groupAttributesBySpreadFrom(attributes, i + 1, Append(groups, pushed), <<>>)
           ELSE groupAttributesBySpreadFrom(attributes, i + 1, groups, pushed)

groupAttributesBySpread(attributes) ==
  groupAttributesBySpreadFrom(attributes, 1, <<>>, <<>>)

\* Lines 283-287 and 298-301: a group that is not empty is sorted and pushed.
PushSorted(result, currentGroup) ==
  IF Len(currentGroup) > 0 THEN result \o ArraySort(1, currentGroup).arr ELSE result

\* Lines 277-301: the loop and the flush of the last group.
RECURSIVE SortGroupsFrom(_, _, _, _)
SortGroupsFrom(attributes, i, result, currentGroup) ==
  IF i > Len(attributes) \/ IsSpread(attributes[i])
  THEN LET pushed == PushSorted(result, currentGroup)
       IN  IF i > Len(attributes) THEN pushed
           ELSE SortGroupsFrom(attributes, i + 1, Append(pushed, attributes[i]), <<>>)
  ELSE SortGroupsFrom(attributes, i + 1, result, Append(currentGroup, attributes[i]))

\* Lines 270-304.
sortAttributesPreservingSpreadPrecedence(attributes) ==
  IF Len(attributes) <= 1 THEN attributes
  ELSE SortGroupsFrom(attributes, 1, <<>>, <<>>)

\* Lines 361-372.
areAttributesEquivalent(attrsA, attrsB) ==
  /\ Len(attrsA) = Len(attrsB)
  /\ \A i \in 1..Len(attrsA) : attrsA[i].type = attrsB[i].type /\ attrsA[i].id = attrsB[i].id

\* Array.prototype.includes / Set.prototype.has on attribute nodes: by identity.
HasNode(list, attr) == \E i \in DOMAIN list : list[i].id = attr.id


----------------------------------------------------------------------------
(* The elements given to the rule.                                         *)

P_key == Attr(Name_key, "Literal", "none", <<>>, 1)
P_id == Attr(Name_id, "Literal", "none", <<>>, 1)
P_to == Attr(Name_to, "Literal", "none", <<>>, 1)
P_asChild == Attr(Name_asChild, "null", "none", <<>>, 0)
P_user == Attr(Name_user, "JSXExpressionContainer", "Identifier", Name_userData, 1)
P_onClick == Attr(Name_onClick, "JSXExpressionContainer", "Identifier", Name_handleClick, 1)
P_data3 == Attr(Name_data, "JSXExpressionContainer", "ObjectExpression", <<>>, 3)
P_data2 == Attr(Name_data, "JSXExpressionContainer", "ObjectExpression", <<>>, 2)
P_meta2 == Attr(Name_meta, "JSXExpressionContainer", "ObjectExpression", <<>>, 2)

Pool == { P_key, P_id, P_to, P_data2, NamespacedAttr, SpreadAttr }

FailPool == { P_to, P_asChild, P_user, SpreadAttr }

\* One name under several value shapes, and one value shape under several names.
S_userArrow == Attr(Name_user, "JSXExpressionContainer", "ArrowFunctionExpression", <<>>, 1)
S_userObject == Attr(Name_user, "JSXExpressionContainer", "ObjectExpression", <<>>, 1)
S_onClickArrow == Attr(Name_onClick, "JSXExpressionContainer", "ArrowFunctionExpression", <<>>, 1)
S_onClickObject == Attr(Name_onClick, "JSXExpressionContainer", "ObjectExpression", <<>>, 1)
S_dataArrow2 == Attr(Name_data, "JSXExpressionContainer", "ArrowFunctionExpression", <<>>, 2)
S_onBlurObject2 == Attr(Name_onBlur, "JSXExpressionContainer", "ObjectExpression", <<>>, 2)
S_onBlurArrow2 == Attr(Name_onBlur, "JSXExpressionContainer", "FunctionExpression", <<>>, 2)

ShapePool == { S_userArrow, S_userObject, S_onClickArrow, S_onClickObject,
               S_dataArrow2, S_onBlurObject2, S_onBlurArrow2,
               P_data3, P_data2, P_meta2 }

\* The element of the README's example (src/README.md, lines 88-99, without the
\* last two attributes).
ReadmeExample ==
  << Attr(Name_size, "Literal", "none", <<>>, 1),
     P_key,
     P_asChild,
     Attr(Name_buttonText, "Literal", "none", <<>>, 1),
     Attr(Name_className, "Literal", "none", <<>>, 1),
     P_onClick,
     P_user,
     Attr(Name_onBlur, "JSXExpressionContainer", "ArrowFunctionExpression", <<>>, 4) >>

Numbered(list) == [i \in 1..Len(list) |-> WithId(list[i], i)]

ListsOver(S, lo, hi) == UNION { [1..n -> S] : n \in lo..hi }

\* list with getText failing for its k-th attribute.
FailAt(list, k) == [i \in 1..Len(list) |-> IF i = k THEN WithNoText(list[i]) ELSE list[i]]

----------------------------------------------------------------------------
(* State machine.                                                          *)

Cleared ==
  /\ pc = "ready"
  /\ sortedAttributes = <<>>
  /\ report = "none"
  /\ fixResult = "notrun"
  /\ replacement = <<>>
  /\ thrown = FALSE
  /\ raised = FALSE

\* create(context), lines 34-46 and 446-458, and the element the host hands over.
Init ==
  /\ rule \in {1, 2}
  /\ \E options \in OptionsSet \cup {SchemaOptions} :
       /\ reactPropsList = ConfiguredList(options)
       /\ shouldPrioritizeReactProps = options.reactPropsFirst
       /\ \/ /\ options \in OptionsSet
             /\ attrs \in { Numbered(l) : l \in ListsOver(Pool, 0, MaxAttrs) }
             /\ nodeNoText = FALSE
          \/ /\ options \in {NoOptions, SchemaOptions}
             /\ attrs = Numbered(ReadmeExample)
             /\ nodeNoText = FALSE
          \/ /\ options \in OptionsSet
             /\ attrs \in { Numbered(l) : l \in ListsOver(ShapePool, 1, MaxShapeAttrs) }
             /\ nodeNoText = FALSE
          \/ /\ options = NoOptions
             /\ \E l \in ListsOver(FailPool, 2, MaxFailAttrs) :
                  \/ /\ attrs = Numbered(l)
                     /\ nodeNoText = TRUE
                  \/ /\ \E k \in 1..Len(l) : attrs = Numbered(FailAt(l, k))
                     /\ nodeNoText = FALSE
  /\ Cleared
  /\ pass = 1
  /\ visits = 1

\* Some comparison of a sort of the first rule object raised (and caught) an
\* exception: every member of a group of two or more is compared.
SortRaises1(attributes) ==
  \E g \in DOMAIN groupAttributesBySpread(attributes) :
    LET members == SelectSeq(groupAttributesBySpread(attributes)[g], LAMBDA a : ~IsSpread(a))
    IN  Len(members) >= 2 /\ \E i \in DOMAIN members : CategoryRaises(members[i])

\* JSXOpeningElement1 with a flag shared by the invocations: once an element
\* has been handled, the later ones are skipped.
JSXOpeningElement1_SkipsLaterElements ==
  /\ pc = "ready" /\ rule = 1
  /\ pc' = "visited"
  /\ IF Len(attrs) <= 1 \/ visits > 1
     THEN /\ sortedAttributes' = attrs
          /\ report' = "none"
          /\ raised' = FALSE
     ELSE LET sorted == sortAttributesPreservingSpreadPrecedence(attrs)
              isSorted == areAttributesEquivalent(attrs, sorted)
              allPreserved == /\ Len(attrs) = Len(sorted)
                              /\ \A i \in DOMAIN attrs : HasNode(sorted, attrs[i])
          IN  /\ sortedAttributes' = sorted
              /\ report' = IF isSorted THEN "none"
                           ELSE IF allPreserved THEN "fix" ELSE "nofix"
              /\ raised' = SortRaises1(attrs)
  /\ thrown' = FALSE
  /\ UNCHANGED <<rule, reactPropsList, shouldPrioritizeReactProps, attrs, nodeNoText,
                 fixResult, replacement, pass, visits>>

\* First module.exports, lines 375-409.
JSXOpeningElement1 ==
  /\ pc = "ready" /\ rule = 1
  /\ pc' = "visited"
  /\ IF Len(attrs) <= 1
     THEN /\ sortedAttributes' = attrs
          /\ report' = "none"
          /\ raised' = FALSE
     ELSE LET sorted == sortAttributesPreservingSpreadPrecedence(attrs)
              isSorted == areAttributesEquivalent(attrs, sorted)
              allPreserved == /\ Len(attrs) = Len(sorted)
                              /\ \A i \in DOMAIN attrs : HasNode(sorted, attrs[i])
          IN  /\ sortedAttributes' = sorted
              /\ report' = IF isSorted THEN "none"
                           ELSE IF allPreserved THEN "fix" ELSE "nofix"
              /\ raised' = SortRaises1(attrs)
  /\ thrown' = FALSE
  /\ UNCHANGED <<rule, reactPropsList, shouldPrioritizeReactProps, attrs, nodeNoText,
                 fixResult, replacement, pass, visits>>

\* The function createFix returns (first module.exports, lines 308-357), called
\* by the host for a report that carries a fix.  An attribute whose text cannot
\* be read is written as the placeholder comment: 0 in `replacement`.
Fix1 ==
  /\ pc = "visited" /\ rule = 1 /\ report = "fix"
  /\ pc' = "fixed"
  /\ LET safe == /\ Len(attrs) = Len(sortedAttributes)
                 /\ \A i \in DOMAIN sortedAttributes : HasNode(attrs, sortedAttributes[i])
     IN  IF ~safe
         THEN /\ fixResult' = "null" /\ replacement' = <<>> /\ UNCHANGED raised
         ELSE IF nodeNoText
         THEN /\ fixResult' = "null" /\ replacement' = <<>> /\ raised' = TRUE
         ELSE /\ fixResult' = "text"
              /\ replacement' = [i \in DOMAIN sortedAttributes |->
                                   IF sortedAttributes[i].noText THEN 0
                                   ELSE sortedAttributes[i].id]
              /\ raised' = (raised \/ \E i \in DOMAIN sortedAttributes :
                                         sortedAttributes[i].noText)
  /\ UNCHANGED <<rule, reactPropsList, shouldPrioritizeReactProps, attrs, nodeNoText,
                 sortedAttributes, report, thrown, pass, visits>>

\* Second module.exports, lines 652-679.
JSXOpeningElement2 ==
  /\ pc = "ready" /\ rule = 2
  /\ pc' = "visited"
  /\ LET attributes == SelectSeq(attrs, LAMBDA a : a.type = "JSXAttribute")
         sorted == ArraySort(2, attributes)
         isSorted == \A i \in DOMAIN attributes : attributes[i].id = sorted.arr[i].id
     IN  IF Len(attrs) <= 1 \/ Len(attributes) <= 1
         THEN /\ sortedAttributes' = attributes
              /\ report' = "none"
              /\ thrown' = FALSE
         ELSE IF sorted.err
         THEN /\ sortedAttributes' = <<>>
              /\ report' = "none"
              /\ thrown' = TRUE
         ELSE /\ sortedAttributes' = sorted.arr
              /\ report' = IF isSorted THEN "none" ELSE "fix"
              /\ thrown' = FALSE
  /\ raised' = thrown'
  /\ UNCHANGED <<rule, reactPropsList, shouldPrioritizeReactProps, attrs, nodeNoText,
                 fixResult, replacement, pass, visits>>

\* The function createFix returns (second module.exports, lines 628-648).
Fix2 ==
  /\ pc = "visited" /\ rule = 2 /\ report = "fix"
  /\ pc' = "fixed"
  /\ IF nodeNoText \/ \E i \in DOMAIN sortedAttributes : sortedAttributes[i].noText
     THEN /\ fixResult' = "notrun" /\ replacement' = <<>>
          /\ thrown' = TRUE /\ raised' = TRUE
     ELSE /\ fixResult' = "text"
          /\ replacement' = [i \in DOMAIN sortedAttributes |-> sortedAttributes[i].id]
          /\ UNCHANGED <<thrown, raised>>
  /\ UNCHANGED <<rule, reactPropsList, shouldPrioritizeReactProps, attrs, nodeNoText,
                 sortedAttributes, report, pass, visits>>

\* The host applies the replacement text and lints the rewritten element again:
\* its attributes are those the replacement wrote, in that order.
ApplyFix ==
  /\ pc = "fixed" /\ fixResult = "text" /\ pass < MaxPasses
  /\ \A i \in DOMAIN replacement : replacement[i] # 0
  /\ attrs' = [i \in DOMAIN replacement |-> WithId(attrs[replacement[i]], i)]
  /\ pass' = pass + 1
  /\ pc' = "ready"
  /\ sortedAttributes' = <<>>
  /\ report' = "none"
  /\ fixResult' = "notrun"
  /\ replacement' = <<>>
  /\ thrown' = FALSE
  /\ raised' = FALSE
  /\ UNCHANGED <<rule, reactPropsList, shouldPrioritizeReactProps, nodeNoText, visits>>

\* The elements that follow the first one in the file.
NextElements ==
  { <<P_to, P_id>>, <<P_id, P_to>>, <<P_to, SpreadAttr, P_id>>,
    <<S_userArrow, S_userObject>>, <<NamespacedAttr>> }

\* The host's traversal reaches the next JSXOpeningElement of the file and calls
\* the handler of the same rule object on it; what the handler and the fix
\* callback computed for the previous element lived in their locals.
NextElement ==
  /\ pc \in {"visited", "fixed"} /\ visits < MaxElements
  /\ \E l \in NextElements : attrs' = Numbered(l)
  /\ nodeNoText' = FALSE
  /\ visits' = visits + 1
  /\ pass' = 1
  /\ pc' = "ready"
  /\ sortedAttributes' = <<>>
  /\ report' = "none"
  /\ fixResult' = "notrun"
  /\ replacement' = <<>>
  /\ thrown' = FALSE
  /\ raised' = FALSE
  /\ UNCHANGED <<rule, reactPropsList, shouldPrioritizeReactProps>>

Next == JSXOpeningElement1 \/ Fix1 \/ JSXOpeningElement2 \/ Fix2 \/ ApplyFix \/ NextElement

Spec == Init /\ [][Next]_vars

----------------------------------------------------------------------------
(* Vocabulary of the properties.                                           *)

\* The handler ran to its end on an element of two or more attributes (for the
\* second rule object: two or more that are not spreads), so that
\* sortedAttributes holds the candidate sequence.
HasCandidate ==
  /\ pc \in {"visited", "fixed"} /\ ~thrown
  /\ Len(attrs) > 1
  /\ rule = 2 => Len(SelectSeq(attrs, LAMBDA a : ~IsSpread(a))) > 1

Candidate1 == rule = 1 /\ HasCandidate

\* The group of position k of list: the number of spread attributes before it.
GroupIndex(list, k) == Cardinality({ j \in 1..(k - 1) : IsSpread(list[j]) })

PosOf(list, id) == CHOOSE k \in DOMAIN list : list[k].id = id

Occurrences(list, id) == Cardinality({ k \in DOMAIN list : list[k].id = id })

\* Positions i < j of the candidate that hold two attributes of one group.
GroupPairs ==
  { p \in (DOMAIN sortedAttributes) \X (DOMAIN sortedAttributes) :
      /\ p[1] < p[2]
      /\ ~IsSpread(sortedAttributes[p[1]]) /\ ~IsSpread(sortedAttributes[p[2]])
      /\ GroupIndex(sortedAttributes, p[1]) = GroupIndex(sortedAttributes, p[2]) }

\* The group of position k of the candidate holds an attribute classified UNKNOWN.
GroupHasUnknown(k) ==
  \E m \in DOMAIN sortedAttributes :
    /\ ~IsSpread(sortedAttributes[m])
    /\ GroupIndex(sortedAttributes, m) = GroupIndex(sortedAttributes, k)
    /\ getPropCategory(sortedAttributes[m]) = UNKNOWN

\* a comes before b in node.attributes.
InputBefore(a, b) == PosOf(attrs, a.id) < PosOf(attrs, b.id)

IsPermutationOfAttrs(ids) ==
  /\ Len(ids) = Len(attrs)
  /\ \A i \in DOMAIN attrs : Cardinality({ k \in DOMAIN ids : ids[k] = i }) = 1

----------------------------------------------------------------------------
(* C1: whenever a replacement is emitted, the attributes written into it   *)
(* are a permutation of node.attributes by identity; and a candidate that  *)
(* is not such a permutation never comes with a fix.                       *)
C1_ReplacementIsPermutation ==
  /\ fixResult = "text" => IsPermutationOfAttrs(replacement)
  /\ (HasCandidate /\ report = "fix") =>
        IsPermutationOfAttrs([i \in DOMAIN sortedAttributes |-> sortedAttributes[i].id])

----------------------------------------------------------------------------
(* C2: in the candidate and in an emitted replacement every spread         *)
(* attribute is at its input index, and every other attribute is in the    *)
(* group it had in the input.                                              *)
C2_SpreadImmobility ==
  /\ HasCandidate =>
       /\ \A i \in DOMAIN attrs :
            IsSpread(attrs[i]) =>
              (i \in DOMAIN sortedAttributes /\ sortedAttributes[i].id = i)
       /\ \A i \in DOMAIN attrs :
            ~IsSpread(attrs[i]) =>
              /\ Occurrences(sortedAttributes, i) = 1
              /\ GroupIndex(sortedAttributes, PosOf(sortedAttributes, i)) = GroupIndex(attrs, i)
  /\ fixResult = "text" =>
       \A i \in DOMAIN attrs :
         IsSpread(attrs[i]) => (i \in DOMAIN replacement /\ replacement[i] = i)

----------------------------------------------------------------------------
(* C3: in the candidate, of two attributes of one group that both classify *)
(* to a category other than UNKNOWN, the one of the lower category comes   *)
(* first, also in a group that holds an UNKNOWN attribute.                 *)
C3_CategoryOrder ==
  Candidate1 =>
    \A p \in GroupPairs :
      LET a == sortedAttributes[p[1]]
          b == sortedAttributes[p[2]]
      IN  (getPropCategory(a) # UNKNOWN /\ getPropCategory(b) # UNKNOWN)
            => getPropCategory(a) <= getPropCategory(b)

(* C3, amended: the same, in every group that holds no attribute           *)
(* classified UNKNOWN.                                                     *)
C3_CategoryOrderNoUnknown ==
  Candidate1 =>
    \A p \in GroupPairs :
      LET a == sortedAttributes[p[1]]
          b == sortedAttributes[p[2]]
      IN  ~GroupHasUnknown(p[1]) => getPropCategory(a) <= getPropCategory(b)

C3_Witness ==
  /\ Candidate1 /\ report = "fix"
  /\ \E p \in GroupPairs :
       LET a == sortedAttributes[p[1]]
           b == sortedAttributes[p[2]]
       IN  /\ ~GroupHasUnknown(p[1])
           /\ getPropCategory(a) < getPropCategory(b)
           /\ InputBefore(b, a)

----------------------------------------------------------------------------
(* C4: with no options, the README's element size, key, asChild,           *)
(* buttonText, className, onClick, user, onBlur is sorted to key           *)
(* (RESERVED), asChild (SHORTHAND), size, className, buttonText (STRING),  *)
(* user (VARIABLE), onClick (FUNCTION), onBlur (MULTILINE_FUNCTION).       *)
C4_ReadmeExampleOrder ==
  (/\ HasCandidate
   /\ attrs = Numbered(ReadmeExample)
   /\ shouldPrioritizeReactProps /\ reactPropsList = ConfiguredList(NoOptions))
  =>
  /\ [i \in DOMAIN sortedAttributes |-> sortedAttributes[i].name]
       = << Name_key, Name_asChild, Name_size, Name_className, Name_buttonText,
            Name_user, Name_onClick, Name_onBlur >>
  /\ [i \in DOMAIN sortedAttributes |->
        IF rule = 1 THEN getPropCategory(sortedAttributes[i])
        ELSE getPropCategory2(sortedAttributes[i])]
       = << REACT_RESERVED, SHORTHAND, STRING_, STRING_, STRING_,
            VARIABLE_, FUNCTION, MULTILINE_FUNCTION >>

----------------------------------------------------------------------------
(* C5: of two attributes of one group that classify to the same category,  *)
(* neither RESERVED nor UNKNOWN, the one of the shorter name comes first   *)
(* in the candidate, and of two different names of equal length the        *)
(* smaller one; compareProps never returns 0 for two such attributes of    *)
(* different names.                                                        *)
C5_LengthThenName ==
  Candidate1 =>
    \A p \in GroupPairs :
      LET a == sortedAttributes[p[1]]
          b == sortedAttributes[p[2]]
      IN  (/\ getPropCategory(a) = getPropCategory(b)
           /\ getPropCategory(a) \notin {REACT_RESERVED, UNKNOWN})
          => /\ Len(a.name) <= Len(b.name)
             /\ (Len(a.name) = Len(b.name) /\ a.name # b.name)
                   => localeCompare(a.name, b.name) < 0
             /\ a.name # b.name => compareProps(a, b) # 0

(* C5, amended: the same, in every group that holds no attribute           *)
(* classified UNKNOWN.                                                     *)
C5_LengthThenNameNoUnknown ==
  Candidate1 =>
    \A p \in GroupPairs :
      LET a == sortedAttributes[p[1]]
          b == sortedAttributes[p[2]]
      IN  (/\ ~GroupHasUnknown(p[1])
           /\ getPropCategory(a) = getPropCategory(b)
           /\ getPropCategory(a) # REACT_RESERVED)
          => /\ Len(a.name) <= Len(b.name)
             /\ (Len(a.name) = Len(b.name) /\ a.name # b.name)
                   => localeCompare(a.name, b.name) < 0
             /\ a.name # b.name => compareProps(a, b) # 0

\* `to` before `id` in the input, both STRING: `id` comes first in the candidate.
C5_Witness ==
  /\ Candidate1 /\ report = "fix"
  /\ \E p \in GroupPairs :
       LET a == sortedAttributes[p[1]]
           b == sortedAttributes[p[2]]
       IN  /\ ~GroupHasUnknown(p[1])
           /\ getPropCategory(a) = STRING_ /\ getPropCategory(b) = STRING_
           /\ a.name = Name_id /\ b.name = Name_to
           /\ InputBefore(b, a)

----------------------------------------------------------------------------
(* C6: of two attributes of one group, both MULTILINE_OBJECT or both       *)
(* MULTILINE_FUNCTION, whose names have equal length, the one whose value  *)
(* has fewer lines comes first in the candidate.                           *)
C6_FewerLinesFirst ==
  Candidate1 =>
    \A p \in GroupPairs :
      LET a == sortedAttributes[p[1]]
          b == sortedAttributes[p[2]]
      IN  (/\ getPropCategory(a) = getPropCategory(b)
           /\ getPropCategory(a) \in {MULTILINE_OBJECT, MULTILINE_FUNCTION}
           /\ Len(a.name) = Len(b.name))
          => SplitLines(a) <= SplitLines(b)

(* C6, amended: of two attributes of one group that holds no UNKNOWN       *)
(* attribute, both MULTILINE_OBJECT or both MULTILINE_FUNCTION, the lines  *)
(* decide only when the two names are the same; two different names of     *)
(* equal length are ordered by name, whatever their lines.                 *)
C6_FewerLinesFirstSameName ==
  Candidate1 =>
    \A p \in GroupPairs :
      LET a == sortedAttributes[p[1]]
          b == sortedAttributes[p[2]]
      IN  (/\ ~GroupHasUnknown(p[1])
           /\ getPropCategory(a) = getPropCategory(b)
           /\ getPropCategory(a) \in {MULTILINE_OBJECT, MULTILINE_FUNCTION}
           /\ Len(a.name) = Len(b.name))
          => IF a.name = b.name THEN SplitLines(a) <= SplitLines(b)
             ELSE localeCompare(a.name, b.name) < 0

\* Two attributes named data, the one of three lines first in the input: the one
\* of two lines comes first in the candidate.
C6_Witness ==
  /\ Candidate1 /\ report = "fix"
  /\ \E p \in GroupPairs :
       LET a == sortedAttributes[p[1]]
           b == sortedAttributes[p[2]]
       IN  /\ ~GroupHasUnknown(p[1])
           /\ getPropCategory(a) = MULTILINE_OBJECT /\ getPropCategory(b) = MULTILINE_OBJECT
           /\ a.name = b.name /\ SplitLines(a) < SplitLines(b)
           /\ InputBefore(b, a)

----------------------------------------------------------------------------
(* C7: sorting the candidate again returns it unchanged, node by node, so  *)
(* a second pass over an element rewritten in the order the rule produced  *)
(* reports nothing; this with spread attributes and with attributes        *)
(* classified UNKNOWN too.                                                 *)
C7_Idempotent ==
  /\ Candidate1 =>
       areAttributesEquivalent(sortedAttributes,
                               sortAttributesPreservingSpreadPrecedence(sortedAttributes))
  /\ (rule = 1 /\ pass > 1 /\ pc = "visited") => report = "none"

\* The second pass over an element that the first pass rewrote, with a spread
\* attribute and an attribute classified UNKNOWN in it.
C7_Witness ==
  /\ Candidate1 /\ pass > 1 /\ pc = "visited" /\ report = "none"
  /\ \E i \in DOMAIN attrs : IsSpread(attrs[i])
  /\ \E i \in DOMAIN attrs : ~IsSpread(attrs[i]) /\ getPropCategory(attrs[i]) = UNKNOWN

----------------------------------------------------------------------------
(* C8: two attributes of one group for which compareProps returns 0 keep,  *)
(* in the candidate, the relative order they have in the input.            *)
C8_Stability ==
  Candidate1 =>
    \A p \in GroupPairs :
      LET a == sortedAttributes[p[1]]
          b == sortedAttributes[p[2]]
      IN  compareProps(a, b) = 0 => InputBefore(a, b)

----------------------------------------------------------------------------
(* C9: when a step of the processing of an element fails with an           *)
(* exception, nothing is thrown to the host and the element is skipped:    *)
(* no report and no fix.                                                   *)
C9_FailureSkipsElement ==
  raised => (~thrown /\ report = "none" /\ fixResult # "text")

----------------------------------------------------------------------------
----------------------------------------------------------------------------
\* The members of the groups, one group after the other.
RECURSIVE ConcatGroups(_, _)
ConcatGroups(groups, g) ==
  IF g > Len(groups) THEN <<>> ELSE groups[g] \o ConcatGroups(groups, g + 1)

(* C11: no group that groupAttributesBySpread returns for the element's    *)
(* attributes holds a spread attribute, and the groups, one after the      *)
(* other, are the attributes that are not spreads, in input order.         *)
C11_GroupsHoldNoSpread ==
  LET groups == groupAttributesBySpread(attrs)
  IN  /\ \A g \in DOMAIN groups : \A k \in DOMAIN groups[g] : ~IsSpread(groups[g][k])
      /\ ConcatGroups(groups, 1) = SelectSeq(attrs, LAMBDA a : ~IsSpread(a))


----------------------------------------------------------------------------
\* The structural shape of the expression of a value: conclusive for a function
\* expression and for an object literal.
StructuralShape(prop) ==
  IF prop.value # "JSXExpressionContainer" THEN "inconclusive"
  ELSE IF prop.expr \in {"ArrowFunctionExpression", "FunctionExpression"} THEN "function"
  ELSE IF prop.expr = "ObjectExpression" THEN "object"
  ELSE "inconclusive"

\* The category the loaded rule object gives an attribute.
CategoryOf(prop) == IF rule = 1 THEN getPropCategory(prop) ELSE getPropCategory2(prop)

\* The handler has classified prop: it is a named attribute, not reserved, whose
\* value is an expression of a conclusive shape and whose text can be read.
ClassifiedByShape(prop) ==
  /\ pc # "ready" /\ ~thrown
  /\ prop.type = "JSXAttribute" /\ prop.nameIsString /\ ~prop.noText
  /\ ~IsReserved(prop)
  /\ StructuralShape(prop) # "inconclusive"

(* C12: two attributes, neither reserved, whose values hold expressions of *)
(* the same conclusive shape (function expression, object literal) and     *)
(* agree on being multi-line, get the same category whatever their names.  *)
C12_ShapeDecidesCategory ==
  \A i, j \in DOMAIN attrs :
    (/\ ClassifiedByShape(attrs[i]) /\ ClassifiedByShape(attrs[j])
     /\ StructuralShape(attrs[i]) = StructuralShape(attrs[j])
     /\ IsMultiline(attrs[i]) = IsMultiline(attrs[j]))
    => CategoryOf(attrs[i]) = CategoryOf(attrs[j])


----------------------------------------------------------------------------
\* What the host observes of one invocation of the handler: the report, the
\* candidate order a report with a fix carries, and an exception.
Outcome ==
  [report |-> report,
   order |-> IF report = "fix"
             THEN [i \in DOMAIN sortedAttributes |-> sortedAttributes[i].id] ELSE <<>>,
   thrown |-> thrown]

\* The outcome of the handler of rule object r on an element processed alone,
\* from its attributes and the configuration.
OutcomeAlone(r, attributes) ==
  LET nonSpread == SelectSeq(attributes, LAMBDA a : ~IsSpread(a))
      sorted == IF r = 1 THEN sortAttributesPreservingSpreadPrecedence(attributes)
                ELSE ArraySort(2, nonSpread).arr
      given == IF r = 1 THEN attributes ELSE nonSpread
      throws == r = 2 /\ Len(nonSpread) > 1 /\ ArraySort(2, nonSpread).err
      same == /\ Len(given) = Len(sorted)
              /\ \A i \in DOMAIN given : given[i].id = sorted[i].id
      kept == /\ Len(given) = Len(sorted)
              /\ \A i \in DOMAIN given : HasNode(sorted, given[i])
      rep == IF Len(attributes) <= 1 \/ Len(given) <= 1 \/ throws \/ same THEN "none"
             ELSE IF r = 2 \/ kept THEN "fix" ELSE "nofix"
  IN  [report |-> rep,
       order |-> IF rep = "fix" THEN [i \in DOMAIN sorted |-> sorted[i].id] ELSE <<>>,
       thrown |-> throws]

----------------------------------------------------------------------------
\* Positions i < j of the candidate that hold two attributes of one group that
\* have the same name.
DuplicatePairs ==
  { p \in GroupPairs :
      /\ sortedAttributes[p[1]].nameIsString /\ sortedAttributes[p[2]].nameIsString
      /\ sortedAttributes[p[1]].name = sortedAttributes[p[2]].name }

(* C14: two attributes of one group that have the same name keep, in the   *)
(* candidate, the relative order they have in the input, whatever their    *)
(* value shapes and line counts.                                           *)
C14_DuplicatesKeepOrder ==
  Candidate1 =>
    \A p \in DuplicatePairs :
      InputBefore(sortedAttributes[p[1]], sortedAttributes[p[2]])

============================================================================
